---- MODULE Spec2Model ----
(***************************************************************************)
(* DashProtected: a token-checking wrapper around Dash callbacks, with the *)
(* example's authentication backend DummyAuthApi.                          *)
(*                                                                         *)
(* State: the three dcc.Store values (current_api_token, last_api_token,   *)
(* user_info), the two displayed properties written by _show_view (the     *)
(* children of 'main' and of 'user_info_display'), the backend's call      *)
(* counter Count and the number of tokens it has issued.                   *)
(*                                                                         *)
(* The four callbacks are round trips: the page reads the Input and State  *)
(* values when it dispatches the request, the server runs the handler, and *)
(* the page writes the outputs when the response arrives.  _login, _logout *)
(* and a protected callback (apply_func) each have a Dispatch, an Execute  *)
(* and a Complete action; _show_view is dispatched by the action that      *)
(* writes current_api_token and completed by ShowView.                     *)
(*                                                                         *)
(* Spec: the round trips run one at a time, each followed by the view      *)
(* refresh it triggers.  SpecLoad adds page loads.  SpecApi is Spec with   *)
(* the backend left open: auth_api is a parameter of DashProtected, and    *)
(* what its methods return is an input of the handlers.  SpecConc lets a   *)
(* login, a logout, the example's protected callback and view refreshes be *)
(* in flight together; SpecFail does so with logins that may fail.         *)
(*                                                                         *)
(* The library's callbacks name the components 'login', 'logout',          *)
(* 'user_info' and 'user_info_display'.  The example's layout declares     *)
(* none of them; the model is of a page that does, with the initial values *)
(* given by initial_user_info and initial_user_info_display.               *)
(*                                                                         *)
(* Python values are modelled by strings: None is the string None below,   *)
(* dash.no_update the string no_update.  A value returned by a wrapped     *)
(* function is a tagged sequence <<tag, item1, ..., itemN>> with tag one   *)
(* of "atom" (N = 1), "tuple" or "list".                                   *)
(***************************************************************************)
EXTENDS Naturals, Sequences, FiniteSets

VARIABLES
    current_api_token,  \* dcc.Store 'current_api_token'
    last_api_token,     \* dcc.Store 'last_api_token'
    user_info,          \* dcc.Store 'user_info'
    main,               \* children of 'main'
    user_info_display,  \* children of 'user_info_display'
    Count,              \* DummyAuthApi.Count
    issued,             \* number of tokens get_new_token has returned
    refreshes,          \* the _show_view requests awaiting their response
    lastOp,             \* record of the last completed round trip
    lastView,           \* record of the last _show_view invocation
    inflight            \* per callback, its request awaiting completion

vars == <<current_api_token, last_api_token, user_info, main,
          user_info_display, Count, issued, refreshes, lastOp, lastView,
          inflight>>

----------------------------------------------------------------------------
(* Bounds *)

\* the number of tokens the backend issues
NumTokens == 2
MaxArgs == 1
MaxOut == 2
\* the number of requests in flight together, view refreshes included
MaxInflight == 2
\* the number of successful logins in SpecFail
MaxLogins == 1

----------------------------------------------------------------------------
(* Values *)

NULL_TOKEN == "null"
None == "None"
no_update == "no_update"

TokenNames == <<"tok1", "tok2", "tok3", "tok4">>
Tokens == {TokenNames[i] : i \in 1..NumTokens}

Usernames == {"Alice", None}
Passwords == {"AlicePassword", None}
NClicks == {None, "1"}

\* the values of a callback's k inputs, and the items of a returned tuple or
\* list of length k: pairwise different, so that order and position show
ArgNames == <<"a", "b", "c", "d">>
OutNames == <<"One", "Three", "Five", "Seven">>
ArgValues(k) == SubSeq(ArgNames, 1, k)
OutValues(k) == SubSeq(OutNames, 1, k)

Atom(v) == <<"atom", v>>
Payload(pv) == pv[2]
Items(pv) == SubSeq(pv, 2, Len(pv))

\* what a wrapped function may return
FuncOutputs ==
    {Atom(OutNames[1])}
    \cup {<<"tuple">> \o OutValues(k) : k \in 0..MaxOut}
    \cup {<<"list">> \o OutValues(k) : k \in 0..MaxOut}

LoginViewBuilder_build_layout == "login_view"
ContentViewBuilder_build_layout == "content_view"

\* the data of the store 'user_info' and the children of 'user_info_display'
\* in the page's layout
initial_user_info == NULL_TOKEN
initial_user_info_display == NULL_TOKEN

----------------------------------------------------------------------------
(* DummyAuthApi.  Each method is given the backend's state it reads; the  *)
(* operators named after a method and a field give the field's new value. *)

CountLimit == 5

_LoginData ==
    [Alice |-> "AlicePassword", Bob |-> "BobPassword",
     Charlie |-> "CharliePassword"]

\* username in self._LoginData and password == self._LoginData[username]
known_login(username, password) ==
    username \in DOMAIN _LoginData /\ password = _LoginData[username]

\* str(uuid.uuid1()): a string that no earlier call returned
uuid1(n) == TokenNames[n + 1]

get_new_token(n, username, password) ==
    IF known_login(username, password) THEN uuid1(n) ELSE None

get_new_token_issued(n, username, password) ==
    IF known_login(username, password) THEN n + 1 ELSE n

\* the counter decides, whatever the token is
get_token_status(count, api_token) ==
    IF count + 1 >= CountLimit THEN None ELSE api_token

get_token_status_Count(count, api_token) ==
    IF count + 1 >= CountLimit THEN 0 ELSE count + 1

\* self.Count = 0: the new value of Count; the token is not looked at
invalidate_token(count, api_token) == 0

----------------------------------------------------------------------------
(* The parameter auth_api of DashProtected, kept in self.AuthApi: any      *)
(* object with the three methods.  The handlers store what get_new_token   *)
(* and get_token_status return; the operators below give the values such a *)
(* call may return.                                                        *)

\* a token, or None
AuthApi_get_new_token(username, password) == Tokens \cup {None}

\* the token it was given, another token, or None
AuthApi_get_token_status(api_token) == Tokens \cup {api_token, None}

----------------------------------------------------------------------------
(* _CallbackState *)

CallbackState_init(data) ==
    [CurrentApiToken |-> data[Len(data)],
     LastApiToken    |-> data[Len(data)],
     Data            |-> data]

unwrap_input(dpcs) == SubSeq(dpcs.Data, 1, Len(dpcs.Data) - 1)

wrap_output(dpcs, data) ==
    <<Atom(dpcs.CurrentApiToken), Atom(dpcs.LastApiToken)>> \o data

----------------------------------------------------------------------------
(* DashProtected handlers *)

\* mutant: the branch for the null token is missing
_show_view_noLoginBranch(current, last, info, existing_layout) ==
    IF last = current THEN <<no_update, no_update>>
    ELSE <<ContentViewBuilder_build_layout, info>>

\* mutant: the view is rebuilt even when the token did not change
_show_view_alwaysRebuild(current, last, info, existing_layout) ==
    IF current = NULL_TOKEN
    THEN <<LoginViewBuilder_build_layout, NULL_TOKEN>>
    ELSE <<ContentViewBuilder_build_layout, info>>

_show_view(current, last, info, existing_layout) ==
    IF last = current THEN <<no_update, no_update>>
    ELSE IF current = NULL_TOKEN
         THEN <<LoginViewBuilder_build_layout, NULL_TOKEN>>
         ELSE <<ContentViewBuilder_build_layout, info>>

\* the view builders _show_view calls, in order
_show_view_builds(current, last) ==
    IF last = current THEN <<>>
    ELSE IF current = NULL_TOKEN THEN <<"LoginViewBuilder">>
         ELSE <<"ContentViewBuilder">>

\* mutant: the last token is taken after the current token was replaced
_login_lastIsNew(n, current, username, password, new_api_token) ==
    IF new_api_token = None
    THEN <<NULL_TOKEN, NULL_TOKEN, NULL_TOKEN>>
    ELSE <<new_api_token, new_api_token, username>>

\* mutant: the password is stored as user info
_login_userInfoPassword(n, current, username, password, new_api_token) ==
    IF new_api_token = None
    THEN <<NULL_TOKEN, current, NULL_TOKEN>>
    ELSE <<new_api_token, current, password>>

\* mutant: a failed login keeps the submitted username as user info
_login_keepUserInfo(n, current, username, password, new_api_token) ==
    IF new_api_token = None
    THEN <<NULL_TOKEN, current, username>>
    ELSE <<new_api_token, current, username>>

\* mutant: None is not replaced by the sentinel
_login_noNullSentinel(n, current, username, password, new_api_token) ==
    IF new_api_token = None
    THEN <<new_api_token, current, NULL_TOKEN>>
    ELSE <<new_api_token, current, username>>

\* new_api_token is what AuthApi.get_new_token(username, password) returned
_login(n, current, username, password, new_api_token) ==
    IF new_api_token = None
    THEN <<NULL_TOKEN, current, NULL_TOKEN>>
    ELSE <<new_api_token, current, username>>

_login_calls(n, current, username, password) ==
    << <<"get_new_token", username, password>> >>

\* mutant: the last token is set to the sentinel too
_logout_lastNull(n, current) ==
    IF n = None THEN <<no_update, no_update, no_update>>
    ELSE <<NULL_TOKEN, NULL_TOKEN, NULL_TOKEN>>

\* mutant: the test for a spurious invocation is missing
_logout_noGuard(n, current) ==
    <<NULL_TOKEN, current, NULL_TOKEN>>

_logout(n, current) ==
    IF n = None THEN <<no_update, no_update, no_update>>
    ELSE <<NULL_TOKEN, current, NULL_TOKEN>>

\* mutant: the token is invalidated after it was reset to the sentinel
_logout_calls_afterReset(n, current) ==
    IF n = None THEN <<>> ELSE << <<"invalidate_token", NULL_TOKEN>> >>

_logout_calls(n, current) ==
    IF n = None THEN <<>> ELSE << <<"invalidate_token", current>> >>

_wrap(specifiers) ==
    <<"Output:current_api_token.data", "Output:last_api_token.data">>
    \o specifiers
    \o <<"State:current_api_token.data">>

\* mutant: a 1-tuple is unpacked like any other tuple
normalize_output_unpackSingleton(output_data) ==
    IF output_data[1] # "tuple"
    THEN <<output_data>>
    ELSE [i \in 1..Len(Items(output_data)) |-> Atom(Items(output_data)[i])]

\* lines 189-190: the function's return value as the list of outputs
normalize_output(output_data) ==
    IF output_data[1] # "tuple" \/ Len(Items(output_data)) = 1
    THEN <<output_data>>
    ELSE [i \in 1..Len(Items(output_data)) |-> Atom(Items(output_data)[i])]

\* mutant: the last token follows the current token
apply_func_lastFollows(func_args, output_data, status) ==
    LET dpcs  == CallbackState_init(func_args)
        token == IF status = None THEN NULL_TOKEN ELSE status
        dpcs2 == [dpcs EXCEPT !.CurrentApiToken = token, !.LastApiToken = token]
    IN  wrap_output(dpcs2, normalize_output(output_data))

\* mutant: a rejected token is not replaced by the sentinel
apply_func_noNullSentinel(func_args, output_data, status) ==
    LET dpcs  == CallbackState_init(func_args)
        dpcs2 == [dpcs EXCEPT !.CurrentApiToken = status]
    IN  wrap_output(dpcs2, normalize_output(output_data))

\* mutant: the result of get_token_status is not assigned
apply_func_keepToken(func_args, output_data, status) ==
    LET dpcs == CallbackState_init(func_args)
    IN  wrap_output(dpcs, normalize_output(output_data))

\* output_data is what func(*unwrapped_args) returned, status what
\* AuthApi.get_token_status(dpcs.CurrentApiToken) returned
apply_func(func_args, output_data, status) ==
    LET dpcs  == CallbackState_init(func_args)
        dpcs2 == [dpcs EXCEPT !.CurrentApiToken =
                      IF status = None THEN NULL_TOKEN ELSE status]
    IN  wrap_output(dpcs2, normalize_output(output_data))

\* mutant: the token is checked before the function is called
apply_func_calls_checkFirst(func_args) ==
    LET dpcs == CallbackState_init(func_args)
    IN  << <<"get_token_status", dpcs.CurrentApiToken>>,
           <<"func">> \o unwrap_input(dpcs) >>

\* the calls apply_func makes, in order
apply_func_calls(func_args) ==
    LET dpcs == CallbackState_init(func_args)
    IN  << <<"func">> \o unwrap_input(dpcs),
           <<"get_token_status", dpcs.CurrentApiToken>> >>

----------------------------------------------------------------------------
(* The framework: dispatch of a callback and application of its outputs *)

\* a dcc.Store / property keeps its value when the callback returns no_update
Store(old, new) == IF new = no_update THEN old ELSE new

IsOutput(spec) == spec \in {"Output:current_api_token.data",
                            "Output:last_api_token.data", "Output:out.value",
                            "Output:chk1.value"}

\* the specifiers a user passes to the decorator: one output, k inputs
Specifiers(k) == <<"Output:out.value">> \o [i \in 1..k |-> "Input:in.value"]

\* the positional arguments Dash passes: one per Input/State, in order
DispatchArgs(wrapped, inputs) ==
    LET deps == SelectSeq(wrapped, LAMBDA s : ~IsOutput(s))
    IN  [i \in 1..Len(deps) |->
            IF deps[i] = "State:current_api_token.data"
            THEN current_api_token ELSE inputs[i]]

\* the example's protected callback: @dash_protected.callback(
\* Output('chk1','value'), Input('reset','n_clicks'), State('chk1','value'))
reset_specifiers ==
    <<"Output:chk1.value", "Input:reset.n_clicks", "State:chk1.value">>

reset(n, chk1value) == <<"list", "One", "Three">>

\* the callbacks that write the token stores; "apply_func" stands for the
\* protected callbacks
Callbacks == {"_login", "_logout", "apply_func"}

\* a request: dispatched with the arguments read from the page, executed on
\* the server (status is what the backend returned, ret what the handler
\* returned, events the calls it made), completed when its outputs are
\* written.  func is the function a protected callback wraps.  logged_out: a
\* logout completed while the request was in flight and no login succeeded
\* since.
NoRequest ==
    [stage |-> "none", func |-> "none", args |-> <<>>, func_out |-> <<>>,
     status |-> None, ret |-> <<>>, events |-> <<>>, logged_out |-> FALSE]

Request(func, args) ==
    [NoRequest EXCEPT !.stage = "dispatched", !.func = func, !.args = args]

RequestToken(r) == r.args[Len(r.args)]

NoneInFlight == \A cb \in Callbacks : inflight[cb].stage = "none"

\* the number of requests awaiting their response
InFlight ==
    Cardinality({cb \in Callbacks : inflight[cb].stage # "none"})
    + Len(refreshes)

\* the requests in flight once the response of callback cb is written
Completed(cb) == [inflight EXCEPT ![cb] = NoRequest]

\* ... and the protected callback still in flight is marked
Marked(reqs, logged_out) ==
    [reqs EXCEPT !["apply_func"] =
        IF @.stage = "none" THEN @ ELSE [@ EXCEPT !.logged_out = logged_out]]

\* prior: the current token the request read when it was dispatched;
\* before: the current token in the store when the response was written
NoOp ==
    [name |-> "none", n |-> None, prior |-> NULL_TOKEN, before |-> NULL_TOKEN,
     username |-> None, password |-> None, backend_ret |-> None,
     func_args |-> <<>>, func_out |-> <<>>, retval |-> <<>>, events |-> <<>>,
     writer |-> "none", logged_out |-> FALSE]

\* the arguments of _show_view, read when it is triggered: Input
\* current_api_token, States last_api_token, user_info and main
ShowViewArgs(current, last, info, existing_layout) ==
    <<current, last, info, existing_layout>>

NoView ==
    [current |-> NULL_TOKEN, last |-> NULL_TOKEN, ret |-> <<no_update, no_update>>,
     builds |-> <<>>, main_before |-> LoginViewBuilder_build_layout,
     display_before |-> NULL_TOKEN, count |-> 0]

\* _show_view is registered without prevent_initial_call: it runs when the
\* page has loaded
Init ==
    /\ current_api_token = NULL_TOKEN
    /\ last_api_token = NULL_TOKEN
    /\ user_info = initial_user_info
    /\ main = LoginViewBuilder_build_layout
    /\ user_info_display = initial_user_info_display
    /\ Count = 0
    /\ issued = 0
    /\ refreshes = <<ShowViewArgs(NULL_TOKEN, NULL_TOKEN, initial_user_info,
                                   LoginViewBuilder_build_layout)>>
    /\ lastOp = NoOp
    /\ lastView = NoView
    /\ inflight = [cb \in Callbacks |-> NoRequest]

----------------------------------------------------------------------------
(* _login *)

\* a login that the backend answers with a token is dispatched only while
\* the backend has tokens left to issue
DispatchLogin ==
    /\ inflight["_login"].stage = "none"
    /\ \E n \in NClicks, username \in Usernames, password \in Passwords :
         /\ known_login(username, password) => issued < NumTokens
         /\ inflight' = [inflight EXCEPT !["_login"] =
               Request("_login", <<n, current_api_token, username, password>>)]
    /\ UNCHANGED <<current_api_token, last_api_token, user_info, main,
                   user_info_display, Count, issued, refreshes, lastOp, lastView>>

ExecuteLogin ==
    /\ inflight["_login"].stage = "dispatched"
    /\ LET r == inflight["_login"]
           new_api_token == get_new_token(issued, r.args[3], r.args[4])
       IN
       /\ issued' = get_new_token_issued(issued, r.args[3], r.args[4])
       /\ inflight' = [inflight EXCEPT !["_login"] =
             [r EXCEPT !.stage = "executed", !.status = new_api_token,
                       !.ret = _login(r.args[1], r.args[2], r.args[3],
                                      r.args[4], new_api_token),
                       !.events = _login_calls(r.args[1], r.args[2],
                                               r.args[3], r.args[4])]]
    /\ UNCHANGED <<current_api_token, last_api_token, user_info, main,
                   user_info_display, Count, refreshes, lastOp, lastView>>

CompleteLogin ==
    /\ inflight["_login"].stage = "executed"
    /\ LET r == inflight["_login"] IN
       /\ current_api_token' = Store(current_api_token, r.ret[1])
       /\ last_api_token' = Store(last_api_token, r.ret[2])
       /\ user_info' = Store(user_info, r.ret[3])
       /\ lastOp' = [NoOp EXCEPT
              !.name = "login", !.n = r.args[1], !.prior = r.args[2],
              !.before = current_api_token,
              !.username = r.args[3], !.password = r.args[4],
              !.backend_ret = r.status, !.retval = r.ret,
              !.events = r.events \o << <<"store">> \o r.ret >>,
              !.writer = IF r.status = None THEN "login_failed" ELSE "login_ok"]
       /\ inflight' = IF r.status = None THEN Completed("_login")
                      ELSE Marked(Completed("_login"), FALSE)
       /\ refreshes' = Append(refreshes,
             ShowViewArgs(current_api_token', last_api_token', user_info', main))
    /\ UNCHANGED <<main, user_info_display, Count, issued, lastView>>

----------------------------------------------------------------------------
(* _logout *)

DispatchLogout ==
    /\ inflight["_logout"].stage = "none"
    /\ \E n \in NClicks :
         inflight' = [inflight EXCEPT !["_logout"] =
               Request("_logout", <<n, current_api_token>>)]
    /\ UNCHANGED <<current_api_token, last_api_token, user_info, main,
                   user_info_display, Count, issued, refreshes, lastOp, lastView>>

ExecuteLogout ==
    /\ inflight["_logout"].stage = "dispatched"
    /\ LET r == inflight["_logout"]
           calls == _logout_calls(r.args[1], r.args[2])
       IN
       /\ Count' = IF Len(calls) = 0 THEN Count
                   ELSE invalidate_token(Count, calls[1][2])
       /\ inflight' = [inflight EXCEPT !["_logout"] =
             [r EXCEPT !.stage = "executed",
                       !.ret = _logout(r.args[1], r.args[2]),
                       !.events = calls]]
    /\ UNCHANGED <<current_api_token, last_api_token, user_info, main,
                   user_info_display, issued, refreshes, lastOp, lastView>>

\* a response of three no_update writes nothing and triggers no refresh
CompleteLogout ==
    /\ inflight["_logout"].stage = "executed"
    /\ LET r == inflight["_logout"]
           wrote == r.ret[1] # no_update
       IN
       /\ current_api_token' = Store(current_api_token, r.ret[1])
       /\ last_api_token' = Store(last_api_token, r.ret[2])
       /\ user_info' = Store(user_info, r.ret[3])
       /\ lastOp' = [NoOp EXCEPT
              !.name = "logout", !.n = r.args[1], !.prior = r.args[2],
              !.before = current_api_token, !.retval = r.ret,
              !.events = r.events \o
                         (IF wrote THEN << <<"store">> \o r.ret >> ELSE <<>>),
              !.writer = IF wrote THEN "logout" ELSE lastOp.writer]
       /\ inflight' = IF wrote THEN Marked(Completed("_logout"), TRUE)
                      ELSE Completed("_logout")
       /\ refreshes' = IF wrote
                       THEN Append(refreshes,
                              ShowViewArgs(current_api_token', last_api_token',
                                           user_info', main))
                       ELSE refreshes
    /\ UNCHANGED <<main, user_info_display, Count, issued, lastView>>

----------------------------------------------------------------------------
(* A protected callback: apply_func around a wrapped function *)

\* the function's return value: any value for a function "func" of k
\* inputs, the example's for "reset"
Returns(r) ==
    IF r.func = "reset"
    THEN {reset(r.args[1], r.args[2])}
    ELSE FuncOutputs

\* registered with prevent_initial_call=True: dispatched when an Input
\* changes, whatever the view and the token are
DispatchProtected ==
    /\ inflight["apply_func"].stage = "none"
    /\ \/ \E k \in 0..MaxArgs :
            inflight' = [inflight EXCEPT !["apply_func"] =
               Request("func", DispatchArgs(_wrap(Specifiers(k)), ArgValues(k)))]
       \/ inflight' = [inflight EXCEPT !["apply_func"] =
               Request("reset",
                       DispatchArgs(_wrap(reset_specifiers), <<"1", "Two">>))]
    /\ UNCHANGED <<current_api_token, last_api_token, user_info, main,
                   user_info_display, Count, issued, refreshes, lastOp, lastView>>

ExecuteProtected ==
    /\ inflight["apply_func"].stage = "dispatched"
    /\ LET r == inflight["apply_func"]
           status == get_token_status(Count, RequestToken(r))
       IN
       \E output_data \in Returns(r) :
         /\ Count' = get_token_status_Count(Count, RequestToken(r))
         /\ inflight' = [inflight EXCEPT !["apply_func"] =
               [r EXCEPT !.stage = "executed", !.func_out = output_data,
                         !.status = status,
                         !.ret = apply_func(r.args, output_data, status),
                         !.events = apply_func_calls(r.args)]]
    /\ UNCHANGED <<current_api_token, last_api_token, user_info, main,
                   user_info_display, issued, refreshes, lastOp, lastView>>

CompleteProtected ==
    /\ inflight["apply_func"].stage = "executed"
    /\ LET r == inflight["apply_func"] IN
       /\ current_api_token' = Store(current_api_token, Payload(r.ret[1]))
       /\ last_api_token' = Store(last_api_token, Payload(r.ret[2]))
       /\ lastOp' = [NoOp EXCEPT
              !.name = "callback", !.prior = RequestToken(r),
              !.before = current_api_token,
              !.backend_ret = r.status, !.func_args = r.args,
              !.func_out = r.func_out, !.retval = r.ret,
              !.events = r.events
                         \o << <<"store", Payload(r.ret[1]), Payload(r.ret[2])>> >>,
              !.writer = IF r.status = None THEN "check_rejected" ELSE "check_ok",
              !.logged_out = r.logged_out]
       /\ inflight' = Completed("apply_func")
       /\ refreshes' = Append(refreshes,
             ShowViewArgs(current_api_token', last_api_token', user_info, main))
    /\ UNCHANGED <<user_info, main, user_info_display, Count, issued, lastView>>

----------------------------------------------------------------------------
(* _login and apply_func with any backend: the value the backend returns  *)
(* is chosen among those the call may return.                             *)

ExecuteLoginApi ==
    /\ inflight["_login"].stage = "dispatched"
    /\ LET r == inflight["_login"] IN
       \E new_api_token \in AuthApi_get_new_token(r.args[3], r.args[4]) :
         inflight' = [inflight EXCEPT !["_login"] =
             [r EXCEPT !.stage = "executed", !.status = new_api_token,
                       !.ret = _login(r.args[1], r.args[2], r.args[3],
                                      r.args[4], new_api_token),
                       !.events = _login_calls(r.args[1], r.args[2],
                                               r.args[3], r.args[4])]]
    /\ UNCHANGED <<current_api_token, last_api_token, user_info, main,
                   user_info_display, Count, issued, refreshes, lastOp, lastView>>

ExecuteProtectedApi ==
    /\ inflight["apply_func"].stage = "dispatched"
    /\ LET r == inflight["apply_func"] IN
       \E output_data \in Returns(r),
          status \in AuthApi_get_token_status(RequestToken(r)) :
         inflight' = [inflight EXCEPT !["apply_func"] =
               [r EXCEPT !.stage = "executed", !.func_out = output_data,
                         !.status = status,
                         !.ret = apply_func(r.args, output_data, status),
                         !.events = apply_func_calls(r.args)]]
    /\ UNCHANGED <<current_api_token, last_api_token, user_info, main,
                   user_info_display, Count, issued, refreshes, lastOp, lastView>>

----------------------------------------------------------------------------
(* _show_view: a round trip like the others.  Every write of              *)
(* current_api_token triggers it: the page reads the Input and the three  *)
(* States and sends the request (in Init, PageLoad and the Complete       *)
(* actions).  The handler reads nothing but its arguments, so running it  *)
(* and writing its response are one step, ShowView.  Several requests may *)
(* await their response; the responses arrive in any order.               *)

ShowView ==
    \E i \in 1..Len(refreshes) :
      LET a == refreshes[i]
          ret == _show_view(a[1], a[2], a[3], a[4])
      IN
      /\ main' = Store(main, ret[1])
      /\ user_info_display' = Store(user_info_display, ret[2])
      /\ lastView' = [current |-> a[1], last |-> a[2], ret |-> ret,
                      builds |-> _show_view_builds(a[1], a[2]),
                      main_before |-> main,
                      display_before |-> user_info_display,
                      count |-> 1]
      /\ refreshes' = SubSeq(refreshes, 1, i - 1)
                      \o SubSeq(refreshes, i + 1, Len(refreshes))
      /\ UNCHANGED <<current_api_token, last_api_token, user_info, Count,
                     issued, lastOp, inflight>>

----------------------------------------------------------------------------
(* Spec: one round trip at a time *)

\* a round trip starts when the one before it and its refresh are over
Dispatch ==
    /\ refreshes = <<>>
    /\ NoneInFlight
    /\ (DispatchLogin \/ DispatchLogout \/ DispatchProtected)

Execute == ExecuteLogin \/ ExecuteLogout \/ ExecuteProtected

Complete == CompleteLogin \/ CompleteLogout \/ CompleteProtected

Next == Dispatch \/ Execute \/ Complete \/ ShowView

Spec == Init /\ [][Next]_vars

----------------------------------------------------------------------------
(* SpecConc: a login, a logout, the example's protected callback and    *)
(* view refreshes may be in flight together, one request per callback and *)
(* MaxInflight requests in all; the buttons are clicked, and the login is *)
(* Alice's.                                                               *)

LoginClick ==
    /\ InFlight < MaxInflight
    /\ DispatchLogin
    /\ inflight'["_login"].args[1] = "1"
    /\ inflight'["_login"].args[3] = "Alice"
    /\ inflight'["_login"].args[4] = "AlicePassword"

LogoutClick ==
    /\ InFlight < MaxInflight
    /\ DispatchLogout
    /\ inflight'["_logout"].args[1] = "1"

ResetClick ==
    /\ InFlight < MaxInflight
    /\ DispatchProtected
    /\ inflight'["apply_func"].func = "reset"

NextConc ==
    LoginClick \/ LogoutClick \/ ResetClick \/ Execute \/ Complete \/ ShowView

SpecConc == Init /\ [][NextConc]_vars

----------------------------------------------------------------------------
(* SpecFail: as SpecConc, with a password that may be wrong; MaxLogins    *)
(* logins succeed.                                                        *)

LoginAttempt ==
    /\ InFlight < MaxInflight
    /\ DispatchLogin
    /\ inflight'["_login"].args[1] = "1"
    /\ inflight'["_login"].args[3] = "Alice"
    /\ inflight'["_login"].args[4] = "AlicePassword" => issued < MaxLogins

NextFail ==
    LoginAttempt \/ LogoutClick \/ ResetClick \/ Execute \/ Complete \/ ShowView

SpecFail == Init /\ [][NextFail]_vars

----------------------------------------------------------------------------
(* SpecApi: one round trip at a time, with any backend *)

ExecuteApi == ExecuteLoginApi \/ ExecuteLogout \/ ExecuteProtectedApi

NextApi == Dispatch \/ ExecuteApi \/ Complete \/ ShowView

SpecApi == Init /\ [][NextApi]_vars

----------------------------------------------------------------------------
(* Page load: the layout is rendered anew with the login view in 'main',  *)
(* the token stores (storage_type='session') keep their values, and       *)
(* _show_view, registered without prevent_initial_call, is invoked.  The  *)
(* store 'user_info' keeps its value or starts anew, as its storage_type  *)
(* has it.                                                                *)

PageLoad ==
    /\ refreshes = <<>>
    /\ NoneInFlight
    /\ main' = LoginViewBuilder_build_layout
    /\ user_info' \in {user_info, initial_user_info}
    /\ user_info_display' = initial_user_info_display
    /\ refreshes' = <<ShowViewArgs(current_api_token, last_api_token, user_info',
                                    LoginViewBuilder_build_layout)>>
    /\ lastOp' = [NoOp EXCEPT !.name = "pageload", !.prior = current_api_token,
                              !.before = current_api_token,
                              !.writer = lastOp.writer]
    /\ UNCHANGED <<current_api_token, last_api_token, Count, issued, lastView,
                   inflight>>

NextLoad == Next \/ PageLoad

SpecLoad == Init /\ [][NextLoad]_vars

----------------------------------------------------------------------------
(* Properties *)

Idle == refreshes = <<>>
LoginShown == main = LoginViewBuilder_build_layout
ContentShown == main = ContentViewBuilder_build_layout
Refreshed == Idle /\ lastView.count = 1

\* C1: once every token write has been followed by its view refresh, the
\* login view is displayed whenever the current token is NULL_TOKEN.
C1_NullTokenShowsLogin ==
    (Idle /\ current_api_token = NULL_TOKEN) => LoginShown

\* the content view was displayed, a logout wrote the null token, and the
\* refresh put the login view back
C1_Witness ==
    /\ Idle /\ current_api_token = NULL_TOKEN /\ LoginShown
    /\ lastOp.name = "logout" /\ lastOp.prior \in Tokens
    /\ lastView.main_before = ContentViewBuilder_build_layout

\* C2: after the refresh, a non-null current token has the content view
\* displayed, whether it came from a login, was returned unchanged by the
\* token check of a protected callback or is another token that the token
\* check returned in its place.
C2_ValidTokenShowsContent ==
    (Idle /\ current_api_token # NULL_TOKEN) => ContentShown

\* the token check of a protected callback dispatched with a token returned
\* another token: it is the current token, and the refresh has rebuilt the
\* content view
C2_Witness ==
    /\ Idle /\ lastOp.name = "callback" /\ lastOp.prior \in Tokens
    /\ lastOp.backend_ret \in Tokens \ {lastOp.prior}
    /\ current_api_token = lastOp.backend_ret
    /\ last_api_token = lastOp.prior
    /\ lastView.main_before = ContentViewBuilder_build_layout
    /\ lastView.builds = <<"ContentViewBuilder">> /\ ContentShown

\* C3: a view refresh that sees last token = current token returns no_update
\* for both outputs, calls no view builder and leaves both displays as they
\* were; a protected callback whose token comes back unchanged is such a case.
C3_EqualTokensNoUpdate ==
    /\ (Refreshed /\ lastView.last = lastView.current) =>
          /\ lastView.ret = <<no_update, no_update>>
          /\ lastView.builds = <<>>
          /\ main = lastView.main_before
          /\ user_info_display = lastView.display_before
    /\ (Refreshed /\ lastOp.name = "callback"
          /\ lastOp.backend_ret = lastOp.prior) =>
          /\ lastView.last = lastView.current
          /\ lastView.builds = <<>>

\* the content view is displayed and a protected callback kept its token
C3_Witness ==
    /\ Refreshed /\ lastOp.name = "callback" /\ lastOp.prior \in Tokens
    /\ lastOp.backend_ret = lastOp.prior
    /\ lastView.current = lastOp.prior /\ lastView.last = lastOp.prior
    /\ ContentShown

\* C4: a login whose get_new_token returns a token t stores current = t,
\* last = the current token before the login and user info = the username;
\* from a null token the following refresh replaces the login view by the
\* content view.
C4_LoginSuccess ==
    (lastOp.name = "login" /\ lastOp.backend_ret # None) =>
        /\ current_api_token = lastOp.backend_ret
        /\ last_api_token = lastOp.prior
        /\ user_info = lastOp.username
        /\ (Idle /\ lastOp.prior = NULL_TOKEN) =>
              /\ lastView.main_before = LoginViewBuilder_build_layout
              /\ lastView.builds = <<"ContentViewBuilder">>
              /\ ContentShown

\* a login from the null token succeeded and the refresh has run
C4_Witness ==
    /\ Idle /\ lastOp.name = "login" /\ lastOp.backend_ret \in Tokens
    /\ lastOp.prior = NULL_TOKEN /\ lastOp.username = "Alice"
    /\ user_info = "Alice" /\ ContentShown

\* C5: a login whose get_new_token returns None stores current = NULL_TOKEN,
\* user info = NULL_TOKEN and last = the prior current token, whatever the
\* prior token and the credentials.
C5_LoginFailure ==
    (lastOp.name = "login" /\ lastOp.backend_ret = None) =>
        /\ current_api_token = NULL_TOKEN
        /\ user_info = NULL_TOKEN
        /\ last_api_token = lastOp.prior
        /\ lastOp.retval = <<NULL_TOKEN, lastOp.prior, NULL_TOKEN>>

\* a login failed while a token was held and a username was submitted
C5_Witness ==
    /\ lastOp.name = "login" /\ lastOp.backend_ret = None
    /\ lastOp.prior \in Tokens /\ lastOp.username = "Alice"
    /\ current_api_token = NULL_TOKEN /\ last_api_token \in Tokens

\* C6: a logout caused by a click, with current token x, stores current =
\* NULL_TOKEN, last = x and user info = NULL_TOKEN, and calls invalidate_token
\* once, with x, before the stores are written.
C6_Logout ==
    (lastOp.name = "logout" /\ lastOp.n # None) =>
        /\ current_api_token = NULL_TOKEN
        /\ last_api_token = lastOp.prior
        /\ user_info = NULL_TOKEN
        /\ lastOp.events = << <<"invalidate_token", lastOp.prior>>,
                              <<"store", NULL_TOKEN, lastOp.prior, NULL_TOKEN>> >>

\* a click on logout while a token was held
C6_Witness ==
    /\ lastOp.name = "logout" /\ lastOp.n # None /\ lastOp.prior \in Tokens
    /\ current_api_token = NULL_TOKEN /\ last_api_token = lastOp.prior

\* C7: a protected callback with a non-null token x whose get_token_status
\* returns None stores current = NULL_TOKEN and last = x; the next refresh sees
\* differing tokens and replaces the content view by the login view.
C7_RejectedToken ==
    (lastOp.name = "callback" /\ lastOp.prior # NULL_TOKEN
        /\ lastOp.backend_ret = None) =>
        /\ current_api_token = NULL_TOKEN
        /\ last_api_token = lastOp.prior
        /\ Idle =>
              /\ lastView.current # lastView.last
              /\ lastView.main_before = ContentViewBuilder_build_layout
              /\ lastView.builds = <<"LoginViewBuilder">>
              /\ LoginShown

\* the token of a protected callback was rejected and the refresh has run
C7_Witness ==
    /\ Idle /\ lastOp.name = "callback" /\ lastOp.prior \in Tokens
    /\ lastOp.backend_ret = None /\ LoginShown
    /\ lastView.last = lastOp.prior

\* the last round trip was a login or a protected callback whose backend call
\* returned None
BackendReturnedNone ==
    lastOp.name \in {"login", "callback"} /\ lastOp.backend_ret = None

\* every refresh has been answered, the last of them one that read the token
\* stores as they are now
RefreshedFromStores ==
    /\ Refreshed
    /\ lastView.current = current_api_token
    /\ lastView.last = last_api_token

\* C8 as claimed: when get_new_token (login) or get_token_status (protected
\* callback) returns None, the view displayed after the refresh of the stores
\* it wrote is the login view, whichever view and token were there before.
C8_BackendNullShowsLogin ==
    (BackendReturnedNone /\ RefreshedFromStores) => LoginShown

\* C8 amended: a login or protected callback whose backend call returns None
\* stores NULL_TOKEN as current token and the token it was dispatched with as
\* last token.  After the refresh of these stores the login view is displayed,
\* unless the operation was dispatched with NULL_TOKEN and the content view is
\* displayed when the refresh is answered: the refresh then returns no_update
\* and the content view stays.
C8_BackendNullStoresSentinel ==
    BackendReturnedNone =>
        /\ current_api_token = NULL_TOKEN
        /\ last_api_token = lastOp.prior
        /\ RefreshedFromStores =>
              /\ LoginShown <=>
                    \/ lastOp.prior # NULL_TOKEN
                    \/ lastView.main_before = LoginViewBuilder_build_layout
              /\ lastOp.prior # NULL_TOKEN =>
                    lastView.builds = <<"LoginViewBuilder">>
              /\ lastOp.prior = NULL_TOKEN =>
                    lastView.ret = <<no_update, no_update>>

\* a login failed while a token was held and the content view was displayed;
\* the refresh has built the login view
C8_Witness ==
    /\ BackendReturnedNone /\ RefreshedFromStores
    /\ lastOp.name = "login" /\ lastOp.prior \in Tokens
    /\ lastView.main_before = ContentViewBuilder_build_layout /\ LoginShown

\* C9 as claimed: None is never stored as current or last token: each holds
\* NULL_TOKEN or a token of the backend, and once written the current token
\* is NULL_TOKEN exactly when its last writer was a logout, a failed login or
\* a rejected token check.
C9_SentinelNeverNone ==
    /\ current_api_token \in Tokens \cup {NULL_TOKEN}
    /\ last_api_token \in Tokens \cup {NULL_TOKEN}
    /\ lastOp.writer # "none" =>
          (current_api_token = NULL_TOKEN
              <=> lastOp.writer \in {"logout", "login_failed", "check_rejected"})

\* C9 amended: None is never stored as current or last token: each holds
\* NULL_TOKEN or a token of the backend, and once written the current token
\* is NULL_TOKEN exactly when its last writer was a logout, a failed login, a
\* rejected token check, or an accepted token check of a protected callback
\* dispatched with NULL_TOKEN (get_token_status is called with NULL_TOKEN and
\* returns it).
C9_SentinelOrEchoedSentinel ==
    /\ current_api_token \in Tokens \cup {NULL_TOKEN}
    /\ last_api_token \in Tokens \cup {NULL_TOKEN}
    /\ lastOp.writer # "none" =>
          (current_api_token = NULL_TOKEN
              <=> \/ lastOp.writer \in {"logout", "login_failed", "check_rejected"}
                  \/ lastOp.writer = "check_ok" /\ lastOp.prior = NULL_TOKEN)
    /\ (lastOp.name = "callback" /\ lastOp.prior = NULL_TOKEN) =>
          /\ lastOp.events[2] = <<"get_token_status", NULL_TOKEN>>
          /\ lastOp.backend_ret \in {NULL_TOKEN, None}
          /\ current_api_token = NULL_TOKEN

\* a protected callback was dispatched with NULL_TOKEN; its token check got
\* NULL_TOKEN back, and the stores hold the sentinel
C9_Witness ==
    /\ lastOp.name = "callback" /\ lastOp.writer = "check_ok"
    /\ lastOp.prior = NULL_TOKEN /\ lastOp.backend_ret = NULL_TOKEN
    /\ current_api_token = NULL_TOKEN /\ last_api_token = NULL_TOKEN

\* the outputs (o1, ..., om) the claim C10 describes for a returned value
C10_Outputs(v) ==
    IF v[1] = "tuple" /\ Len(v) - 1 # 1
    THEN [i \in 1..(Len(v) - 1) |-> <<"atom", v[i + 1]>>]
    ELSE <<v>>

\* C10: a protected callback invoked with (a1, ..., ak, x) calls the function
\* with (a1, ..., ak) and returns (c, x, o1, ..., om): c is get_token_status(x)
\* or NULL_TOKEN when that is None; the outputs are the elements of a returned
\* tuple of length other than 1, and the returned value itself otherwise.
C10_CallbackWrapping ==
    lastOp.name = "callback" =>
        LET k == Len(lastOp.func_args) - 1
            x == lastOp.func_args[k + 1]
            c == IF lastOp.backend_ret = None THEN NULL_TOKEN
                 ELSE lastOp.backend_ret
        IN  /\ x = lastOp.prior
            /\ lastOp.events[1] = <<"func">> \o [i \in 1..k |-> lastOp.func_args[i]]
            /\ lastOp.retval =
                  << <<"atom", c>>, <<"atom", x>> >> \o C10_Outputs(lastOp.func_out)

\* the function got one argument and returned a 1-tuple, passed on whole
C10_Witness ==
    /\ lastOp.name = "callback" /\ Len(lastOp.func_args) = 2
    /\ lastOp.func_out = <<"tuple", "One">>
    /\ Len(lastOp.retval) = 3 /\ lastOp.retval[3] = <<"tuple", "One">>
    /\ lastOp.events[1] = <<"func", lastOp.func_args[1]>>

\* C11: every protected callback calls the wrapped function exactly once and
\* before get_token_status; the function's outputs and the incoming token are
\* in the returned tuple whatever the token check returns, which decides the
\* first element only.
C11_FuncBeforeTokenCheck ==
    lastOp.name = "callback" =>
        LET ev == lastOp.events
            n == Len(lastOp.retval)
        IN  /\ Cardinality({i \in 1..Len(ev) : ev[i][1] = "func"}) = 1
            /\ Cardinality({i \in 1..Len(ev) : ev[i][1] = "get_token_status"}) = 1
            /\ \A i, j \in 1..Len(ev) :
                  (ev[i][1] = "func" /\ ev[j][1] = "get_token_status") => i < j
            /\ SubSeq(lastOp.retval, 2, n) =
                  << <<"atom", lastOp.prior>> >> \o C10_Outputs(lastOp.func_out)
            /\ lastOp.retval[1] =
                  <<"atom", IF lastOp.backend_ret = None THEN NULL_TOKEN
                            ELSE lastOp.backend_ret>>

\* the token check returned another token than the one it was given: that
\* token is the first element, followed by the incoming token and the two
\* outputs of the function
C11_Witness ==
    /\ lastOp.name = "callback" /\ lastOp.prior \in Tokens
    /\ lastOp.backend_ret \in Tokens \ {lastOp.prior}
    /\ lastOp.func_out = <<"tuple", "One", "Three">>
    /\ lastOp.retval = << <<"atom", lastOp.backend_ret>>,
                          <<"atom", lastOp.prior>>,
                          <<"atom", "One">>, <<"atom", "Three">> >>
    /\ lastOp.events[1][1] = "func"

\* C12: a logout invoked with n = None returns no_update three times, leaves
\* the three stores as they are and does not call invalidate_token.
C12_SpuriousLogout ==
    [][(lastOp'.name = "logout" /\ lastOp'.n = None) =>
          /\ lastOp'.retval = <<no_update, no_update, no_update>>
          /\ lastOp'.events = <<>>
          /\ UNCHANGED <<current_api_token, last_api_token, user_info>>]_vars

\* a spurious logout happened while a token was held: the token, the user
\* info and the backend's counter of token checks are as before
C12_Witness ==
    /\ lastOp.name = "logout" /\ lastOp.n = None /\ lastOp.prior \in Tokens
    /\ current_api_token = lastOp.prior /\ Count > 0
    /\ user_info = "Alice" /\ lastOp.events = <<>>

\* the last handler called invalidate_token with token t
Invalidated(t) ==
    \E i \in 1..Len(lastOp.events) : lastOp.events[i] = <<"invalidate_token", t>>

\* C13 as claimed: whenever a logout or a login (successful or failed) has
\* replaced a non-null current token t, invalidate_token(t) has been called.
C13_EveryReplacedTokenInvalidated ==
    (lastOp.name \in {"login", "logout"} /\ lastOp.prior \in Tokens
        /\ current_api_token # lastOp.prior) => Invalidated(lastOp.prior)

\* C13 amended: a logout that replaces a non-null current token t has called
\* invalidate_token(t) before the stores were written; a login calls
\* get_new_token only and never invalidate_token.
C13_LogoutInvalidates ==
    /\ (lastOp.name = "logout" /\ lastOp.prior \in Tokens
          /\ current_api_token # lastOp.prior) =>
          lastOp.events[1] = <<"invalidate_token", lastOp.prior>>
    /\ lastOp.name = "login" =>
          \A i \in 1..Len(lastOp.events) : lastOp.events[i][1] # "invalidate_token"

\* a logout replaced the token of the second login
C13_Witness ==
    /\ lastOp.name = "logout" /\ lastOp.prior = TokenNames[2]
    /\ current_api_token = NULL_TOKEN /\ Invalidated(lastOp.prior)
    /\ last_api_token = lastOp.prior

\* C14: the user-info store is NULL_TOKEN whenever the current token is
\* NULL_TOKEN, also after a protected callback whose token was rejected, and a
\* refresh that builds the login view writes NULL_TOKEN to the user-info
\* display.
C14_NullTokenNullUserInfo ==
    /\ current_api_token = NULL_TOKEN => user_info = NULL_TOKEN
    /\ lastView.builds = <<"LoginViewBuilder">> => lastView.ret[2] = NULL_TOKEN

\* C16: after a page load with a persisted non-null current token, the
\* initial view refresh displays the content view, whatever the persisted last
\* token is, also when it equals the current token.
C16_ReloadShowsContent ==
    (Idle /\ lastOp.name = "pageload" /\ current_api_token # NULL_TOKEN)
        => ContentShown

\* C15 as claimed: a protected callback that was in flight when a logout
\* completed, with no login succeeding since, does not set the current token
\* back to a non-null value when it completes.
C15_NoTokenAfterLogout ==
    (lastOp.name = "callback" /\ lastOp.logged_out)
        => current_api_token = NULL_TOKEN

\* C15 amended: a protected callback dispatched with a non-null token x before
\* a logout and completing after it stores x as last token and, as current
\* token, NULL_TOKEN when get_token_status returned None and x otherwise: the
\* current token does not stay NULL_TOKEN unless the backend rejects x.
C15_StaleCallbackStoresItsToken ==
    (lastOp.name = "callback" /\ lastOp.logged_out /\ lastOp.prior \in Tokens) =>
        /\ last_api_token = lastOp.prior
        /\ lastOp.backend_ret = None => current_api_token = NULL_TOKEN
        /\ lastOp.backend_ret # None => current_api_token = lastOp.prior

\* the logout had set the current token to NULL_TOKEN; the callback dispatched
\* before it, its token check run after the logout's invalidate_token, set it
\* back to the token it was dispatched with
C15_Witness ==
    /\ lastOp.name = "callback" /\ lastOp.logged_out
    /\ lastOp.before = NULL_TOKEN /\ lastOp.prior \in Tokens
    /\ current_api_token = lastOp.prior /\ last_api_token = lastOp.prior
    /\ Count = 1

====
